---------------------------- MODULE Spec2Model ----------------------------
(***************************************************************************)
(* Model of src/etl.py: a batch ETL script that reads song records and     *)
(* event (log) records, derives five tables with Spark SQL and writes each *)
(* of them to a destination in overwrite mode.                             *)
(*                                                                         *)
(* A DataFrame is a bag (multiset) of rows; a row is a record.  A string   *)
(* column holds a string or NULL; an integer column that can be null holds *)
(* << >> (null) or <<v>>.  A decimal string, as str() produces it, is the  *)
(* sequence of its digits.                                                 *)
(***************************************************************************)
EXTENDS Integers, Sequences, FiniteSets, Bags, TLC

\* ------------------------------------------------------------------ bounds
MaxSongs == 2
MaxEvents == 2
MaxRuns == 2

\* ------------------------------------------------------------- SQL values
NULL == "NULL"
NullInt == << >>
SomeInt(v) == <<v>>

\* a = b in SQL: true only when both sides are non-null and the same
SqlEq(a, b) == a # NULL /\ b # NULL /\ a = b

Restrict(r, cols) == [c \in cols |-> r[c]]

\* ------------------------------------------------------ DataFrame algebra
Select(B, cols) == BagOfAll(LAMBDA r : Restrict(r, cols), B)

Distinct(B) == SetToBag(BagToSet(B))

NotNull(B, c) == [r \in {x \in BagToSet(B) : x[c] # NULL} |-> B[r]]

\* ----------------------------------------------------------------- inputs
Song(id, title, artist, yr, aname) ==
    [song_id |-> id, title |-> title, artist_id |-> artist, year |-> yr,
     duration |-> 200, artist_name |-> aname, artist_location |-> NULL,
     artist_latitude |-> NULL, artist_longitude |-> NULL]

SongUniverse ==
    { Song("S1", "Foo", "A1", 2000, "Abba"),
      Song("S2", "Foo", "A1", 2001, "Abba"),
      Song(NULL, "Bar", "A2", 2000, "Beck"),
      Song("S3", NULL, NULL, 2000, NULL) }

Event(page, uid, first, song, ts) ==
    [userId |-> uid, firstName |-> first, lastName |-> NULL, gender |-> NULL,
     level |-> "free", page |-> page, ts |-> ts, song |-> song,
     sessionId |-> 1, location |-> NULL, userAgent |-> NULL]

EventUniverse ==
    { Event("NextSong", "7", "Ann", "Foo", 2018000),
      Event("NextSong", "7", "Ann", "Foo", 2018999),
      Event("Home", "7", "Ann", "Foo", 2018000),
      Event("NextSong", NULL, NULL, "Bar", 2147483647),
      Event("NextSong", "8", "Bob", NULL, 2019000) }

SeqToBag(s) == [e \in {s[i] : i \in DOMAIN s} |-> Cardinality({i \in DOMAIN s : s[i] = e})]

BagsUpTo(U, n) == {SeqToBag(s) : s \in UNION {[1..k -> U] : k \in 0..n}}

\* ------------------------------------------------- timestamp derivation
\* Python's int(a / b) for integers: the quotient truncated toward zero
IntTrunc(a, b) == IF a >= 0 THEN a \div b ELSE -((-a) \div b)

RECURSIVE Str(_)
\* str(n) of a non-negative integer: its decimal digits
Str(n) == IF n < 10 THEN <<n>> ELSE Str(n \div 10) \o <<n % 10>>

RECURSIVE DigitsToInt(_)
DigitsToInt(s) == IF s = << >> THEN 0
                  ELSE 10 * DigitsToInt(SubSeq(s, 1, Len(s) - 1)) + s[Len(s)]

\* udf get_timestamp: str(int(int(x)/1000)), epoch seconds as a decimal string
get_timestamp(x) == Str(IntTrunc(x, 1000))

\* proleptic Gregorian calendar, days counted from 1970-01-01
CivilFromDays(z0) ==
    LET z   == z0 + 719468
        era == z \div 146097
        doe == z - era * 146097
        yoe == (doe - doe \div 1460 + doe \div 36524 - doe \div 146096) \div 365
        doy == doe - (365 * yoe + yoe \div 4 - yoe \div 100)
        mp  == (5 * doy + 2) \div 153
        d   == doy - (153 * mp + 2) \div 5 + 1
        m   == IF mp < 10 THEN mp + 3 ELSE mp - 9
        y   == yoe + era * 400 + (IF m <= 2 THEN 1 ELSE 0)
    IN  [year |-> y, month |-> m, day |-> d]

DaysFromCivil(y0, m, d) ==
    LET y   == IF m <= 2 THEN y0 - 1 ELSE y0
        era == y \div 400
        yoe == y - era * 400
        doy == (153 * (IF m > 2 THEN m - 3 ELSE m + 9) + 2) \div 5 + d - 1
        doe == yoe * 365 + yoe \div 4 - yoe \div 100 + doy
    IN  era * 146097 + doe - 719468

\* datetime.fromtimestamp(secs + usec/1e6), rendered by str(); the session's
\* time zone is taken to be UTC
FromTimestamp(secs, usec) ==
    LET c   == CivilFromDays(secs \div 86400)
        sod == secs % 86400
    IN  [year |-> c.year, month |-> c.month, day |-> c.day,
         hour |-> sod \div 3600, minute |-> (sod % 3600) \div 60,
         second |-> sod % 60, microsecond |-> usec]

\* udf get_datetime: str(datetime.fromtimestamp(int(x) / 1000.0))
get_datetime(x) == FromTimestamp(x \div 1000, (x % 1000) * 1000)

\* Spark SQL's implicit cast of a string to a timestamp, on a string of
\* digits only: a four-digit string is the year (midnight, 1 January), any
\* other length does not parse and gives null
CastToTimestamp(s) ==
    IF Len(s) = 4
    THEN <<[year |-> DigitsToInt(s), month |-> 1, day |-> 1,
            hour |-> 0, minute |-> 0, second |-> 0]>>
    ELSE << >>

IsLeap(y) == (y % 4 = 0 /\ y % 100 # 0) \/ y % 400 = 0

\* Monday = 0 ... Sunday = 6 (1970-01-01 was a Thursday)
DayOfWeek(y, m, d) == (DaysFromCivil(y, m, d) + 3) % 7

WeeksInYear(y) ==
    IF DayOfWeek(y, 1, 1) = 3 \/ (IsLeap(y) /\ DayOfWeek(y, 1, 1) = 2)
    THEN 53 ELSE 52

\* ISO-8601 week number
IsoWeek(y, m, d) ==
    LET doy == DaysFromCivil(y, m, d) - DaysFromCivil(y, 1, 1) + 1
        w   == (doy - (DayOfWeek(y, m, d) + 1) + 10) \div 7
    IN  IF w < 1 THEN WeeksInYear(y - 1)
        ELSE IF w > WeeksInYear(y) THEN 1 ELSE w

hour(s) == LET t == CastToTimestamp(s)
           IN IF t = << >> THEN NullInt ELSE SomeInt(t[1].hour)
day(s) == LET t == CastToTimestamp(s)
          IN IF t = << >> THEN NullInt ELSE SomeInt(t[1].day)
weekofyear(s) == LET t == CastToTimestamp(s)
                 IN IF t = << >> THEN NullInt
                    ELSE SomeInt(IsoWeek(t[1].year, t[1].month, t[1].day))
month(s) == LET t == CastToTimestamp(s)
            IN IF t = << >> THEN NullInt ELSE SomeInt(t[1].month)
year(s) == LET t == CastToTimestamp(s)
           IN IF t = << >> THEN NullInt ELSE SomeInt(t[1].year)
weekday(s) == LET t == CastToTimestamp(s)
              IN IF t = << >> THEN NullInt
                 ELSE SomeInt(DayOfWeek(t[1].year, t[1].month, t[1].day))

\* ----------------------------------------------------------------- queries
\* mutant: the WHERE clause left out
songs_table_unfiltered(songs) ==
    Distinct(Select(songs,
                    {"song_id", "title", "artist_id", "year", "duration"}))

\* SELECT distinct song_id, title, artist_id, year, duration
\* FROM songs WHERE song_id IS NOT NULL
songs_table(songs) ==
    Distinct(Select(NotNull(songs, "song_id"),
                    {"song_id", "title", "artist_id", "year", "duration"}))

\* SELECT distinct artist_id, artist_name, artist_location, artist_latitude,
\* artist_longitude FROM songs WHERE artist_id IS NOT NULL
artists_table(songs) ==
    Distinct(Select(NotNull(songs, "artist_id"),
                    {"artist_id", "artist_name", "artist_location",
                     "artist_latitude", "artist_longitude"}))

\* mutant: every event passes the filter
FilterNothing(staging_events) == staging_events

\* SELECT * FROM staging_events WHERE page = 'NextSong'
FilterNextSong(staging_events) ==
    [r \in {x \in BagToSet(staging_events) : SqlEq(x.page, "NextSong")}
        |-> staging_events[r]]

\* df.withColumn(name, ...), on one row: the row with column name set to v
WithColumn(r, name, v) ==
    [c \in DOMAIN r \cup {name} |-> IF c = name THEN v ELSE r[c]]

\* the column each udf is applied to
TimestampArg(r) == r.ts
\* mutant: get_datetime applied to the timestamp column, already divided
DatetimeArgDivided(r) == DigitsToInt(r.timestamp)

DatetimeArg(r) == r.ts

\* mutant: DISTINCT left out
users_table_all(staging_events) ==
    Select(NotNull(staging_events, "userId"),
           {"userId", "firstName", "lastName", "gender"})

\* SELECT DISTINCT userId, firstName, lastName, gender
\* FROM staging_events WHERE userId IS NOT NULL
users_table(staging_events) ==
    Distinct(Select(NotNull(staging_events, "userId"),
                    {"userId", "firstName", "lastName", "gender"}))

\* mutant: the calendar functions applied to the millisecond column
TimeSourceMillis(r) == Str(r.ts)

\* the column the calendar functions of the time table are applied to
TimeSource(r) == r.timestamp

\* SELECT distinct timestamp as start_time, hour(timestamp) as hour, ...
time_table(staging_events) ==
    Distinct(BagOfAll(LAMBDA r :
        [start_time |-> r.timestamp,
         hour    |-> hour(TimeSource(r)),
         day     |-> day(TimeSource(r)),
         week    |-> weekofyear(TimeSource(r)),
         month   |-> month(TimeSource(r)),
         year    |-> year(TimeSource(r)),
         weekday |-> weekday(TimeSource(r))], staging_events))

\* mutant: the join made on the song's id
JoinOnSongId(a, b) == SqlEq(a.song, b.song_id)

\* the ON condition of the join
JoinOn(a, b) == SqlEq(a.song, b.title)

\* FROM staging_events as a inner join songs_parquet as b on a.song = b.title
InnerJoin(A, B) ==
    [p \in {q \in BagToSet(A) \X BagToSet(B) : JoinOn(q[1], q[2])}
        |-> A[p[1]] * B[p[2]]]

\* the SELECT list of the songplays query, on a joined pair <<a, b>>
SongplaysRow(p) ==
    [start_time |-> p[1].timestamp,
     userId     |-> p[1].userId,
     level      |-> p[1].level,
     song_id    |-> p[2].song_id,
     artist_id  |-> p[2].artist_id,
     sessionId  |-> p[1].sessionId,
     location   |-> p[1].location,
     userAgent  |-> p[1].userAgent,
     year       |-> year(p[1].timestamp),
     month      |-> month(p[1].timestamp)]

\* mutant: SELECT DISTINCT
songplays_table_distinct(staging_events, songs_parquet) ==
    Distinct(BagOfAll(SongplaysRow, InnerJoin(staging_events, songs_parquet)))

\* SELECT a.timestamp as start_time, a.userId, a.level, b.song_id,
\* b.artist_id, a.sessionId, a.location, a.userAgent, year(a.timestamp),
\* month(a.timestamp) FROM staging_events as a inner join songs_parquet as b
songplays_table(staging_events, songs_parquet) ==
    BagOfAll(SongplaysRow, InnerJoin(staging_events, songs_parquet))

\* ----------------------------------------------------------- parquet files
\* DataFrameWriter.partitionBy(cols).parquet(path): each row goes to the
\* directory named by its partition columns, stored without them
WriteParquet(table, cols) ==
    BagOfAll(LAMBDA r : [dir |-> Restrict(r, cols),
                         row |-> Restrict(r, DOMAIN r \ cols)], table)

\* spark.read.parquet(path): the stored rows, each with the columns of its
\* directory added back
read_parquet(files) == BagOfAll(LAMBDA f : f.dir @@ f.row, files)

\* mutant: mode = "append"
AppendMode(old, new) == old (+) new

\* mode = "overwrite": the new files replace whatever the path held
Overwrite(old, new) == new

Tables == {"songs", "artists", "users", "time", "songplays"}

PartitionCols(t) ==
    CASE t = "songs" -> {"year", "artist_id"}
      [] t = "time" -> {"year", "month"}
      [] t = "songplays" -> {"year", "month"}
      [] OTHER -> {}

\* ------------------------------------------------------------ control flow
\* mutant: main calls process_log_data before process_song_data
ProgramOrderLogsFirst ==
    << "create_spark_session",
       "read_log_data", "filter_events", "add_timestamp", "add_datetime",
       "write_users", "write_time", "read_songs_parquet", "write_songplays",
       "read_song_data", "write_songs", "write_artists" >>

\* main: create_spark_session, process_song_data, process_log_data, each
\* statement of each in the order of the text
ProgramOrder ==
    << "create_spark_session",
       "read_song_data", "write_songs", "write_artists",
       "read_log_data", "filter_events", "add_timestamp", "add_datetime",
       "write_users", "write_time", "read_songs_parquet", "write_songplays" >>

After(p) ==
    LET i == CHOOSE k \in DOMAIN ProgramOrder : ProgramOrder[k] = p
    IN  IF i = Len(ProgramOrder) THEN "done" ELSE ProgramOrder[i + 1]

\* mutant: the exception is caught and the run goes on
AfterFailureIgnored(p) == After(p)

\* nothing catches an exception: it leaves main and ends the process
AfterFailure(p) == "aborted"

\* the table a step is writing, if any
Writing(p) ==
    CASE p = "write_songs" -> {"songs"}
      [] p = "write_artists" -> {"artists"}
      [] p = "write_users" -> {"users"}
      [] p = "write_time" -> {"time"}
      [] p = "write_songplays" -> {"songplays"}
      [] OTHER -> {}

\* ------------------------------------------------------------------- state
VARIABLES
    pc,          \* the statement main is about to execute
    song_data,   \* the song records at the source
    log_data,    \* the event records at the source
    output,      \* the parquet files of each table at the destination
    views,       \* the session's temporary views
    df,          \* the local DataFrame df
    stdout,      \* what the run has printed
    exc,         \* the statement that raised in this run, or "none"
    runs,        \* how many times main has been started
    before       \* history: the destination as the current run found it

vars == <<pc, song_data, log_data, output, views, df, stdout, exc, runs,
          before>>

NoViews == [songs |-> EmptyBag, staging_events |-> EmptyBag,
            songs_parquet |-> EmptyBag]

EmptyOutput == [t \in Tables |-> EmptyBag]

\* a destination that already holds tables, written from other inputs
StaleOutput ==
    [t \in Tables |->
        CASE t = "songs" ->
               WriteParquet(SetToBag({[song_id |-> "S0", title |-> "Foo",
                   artist_id |-> "A0", year |-> 1999, duration |-> 100]}),
                   PartitionCols(t))
          [] t = "artists" ->
               WriteParquet(SetToBag({[artist_id |-> "A0",
                   artist_name |-> "Old", artist_location |-> NULL,
                   artist_latitude |-> NULL, artist_longitude |-> NULL]}),
                   PartitionCols(t))
          [] t = "users" ->
               WriteParquet(SetToBag({[userId |-> "0", firstName |-> "Old",
                   lastName |-> NULL, gender |-> NULL]}), PartitionCols(t))
          [] t = "time" ->
               WriteParquet(SetToBag({[start_time |-> <<1, 9, 9, 9>>,
                   hour |-> <<0>>, day |-> <<1>>, week |-> <<53>>,
                   month |-> <<1>>, year |-> <<1999>>, weekday |-> <<4>>]}),
                   PartitionCols(t))
          [] t = "songplays" ->
               WriteParquet(SetToBag({[start_time |-> <<1, 9, 9, 9>>,
                   userId |-> "0", level |-> "free", song_id |-> "S0",
                   artist_id |-> "A0", sessionId |-> 1, location |-> NULL,
                   userAgent |-> NULL, year |-> <<1999>>,
                   month |-> <<1>>]}), PartitionCols(t))]

Init ==
    /\ pc = ProgramOrder[1]
    /\ song_data \in BagsUpTo(SongUniverse, MaxSongs)
    /\ log_data \in BagsUpTo(EventUniverse, MaxEvents)
    /\ output \in {EmptyOutput, StaleOutput}
    /\ views = NoViews
    /\ df = EmptyBag
    /\ stdout = << >>
    /\ exc = "none"
    /\ runs = 1
    /\ before = output

\* one statement runs to completion: control moves on
Step(p) == pc = p /\ pc' = After(p)

\* ------------------------------------------------------- create_spark_session
CreateSparkSession ==
    /\ Step("create_spark_session")
    /\ UNCHANGED <<song_data, log_data, output, views, df, stdout, exc, runs,
                   before>>

\* ---------------------------------------------------------- process_song_data
ReadSongData ==
    /\ Step("read_song_data")
    /\ df' = song_data
    /\ views' = [views EXCEPT !.songs = song_data]
    /\ stdout' = Append(stdout, "SONGS Dataframe Schema")
    /\ UNCHANGED <<song_data, log_data, output, exc, runs, before>>

WriteSongsTable ==
    /\ Step("write_songs")
    /\ output' = [output EXCEPT !.songs =
           Overwrite(@, WriteParquet(songs_table(views.songs),
                                     PartitionCols("songs")))]
    /\ stdout' = Append(stdout, "Song Table Uploaded")
    /\ UNCHANGED <<song_data, log_data, views, df, exc, runs, before>>

WriteArtistsTable ==
    /\ Step("write_artists")
    /\ output' = [output EXCEPT !.artists =
           Overwrite(@, WriteParquet(artists_table(views.songs),
                                     PartitionCols("artists")))]
    /\ stdout' = Append(stdout, "Artists Table Uploaded")
    /\ UNCHANGED <<song_data, log_data, views, df, exc, runs, before>>

\* ----------------------------------------------------------- process_log_data
ReadLogData ==
    /\ Step("read_log_data")
    /\ df' = log_data
    /\ views' = [views EXCEPT !.staging_events = log_data]
    /\ UNCHANGED <<song_data, log_data, output, stdout, exc, runs, before>>

FilterEvents ==
    /\ Step("filter_events")
    /\ df' = FilterNextSong(views.staging_events)
    /\ stdout' = Append(stdout, "Staging events Table Filtered")
    /\ UNCHANGED <<song_data, log_data, output, views, exc, runs, before>>

AddTimestamp ==
    /\ Step("add_timestamp")
    /\ df' = BagOfAll(LAMBDA r : WithColumn(r, "timestamp",
                                  get_timestamp(TimestampArg(r))), df)
    /\ UNCHANGED <<song_data, log_data, output, views, stdout, exc, runs,
                   before>>

AddDatetime ==
    /\ Step("add_datetime")
    /\ df' = BagOfAll(LAMBDA r : WithColumn(r, "datetime",
                                  get_datetime(DatetimeArg(r))), df)
    /\ views' = [views EXCEPT !.staging_events = df']
    /\ stdout' = Append(stdout, "LOGS Dataframe Schema")
    /\ UNCHANGED <<song_data, log_data, output, exc, runs, before>>

WriteUsersTable ==
    /\ Step("write_users")
    /\ output' = [output EXCEPT !.users =
           Overwrite(@, WriteParquet(users_table(views.staging_events),
                                     PartitionCols("users")))]
    /\ stdout' = Append(stdout, "User Table Uploaded")
    /\ UNCHANGED <<song_data, log_data, views, df, exc, runs, before>>

WriteTimeTable ==
    /\ Step("write_time")
    /\ output' = [output EXCEPT !.time =
           Overwrite(@, WriteParquet(time_table(views.staging_events),
                                     PartitionCols("time")))]
    /\ stdout' = Append(stdout, "Time Table Uploaded")
    /\ UNCHANGED <<song_data, log_data, views, df, exc, runs, before>>

ReadSongsParquet ==
    /\ Step("read_songs_parquet")
    /\ views' = [views EXCEPT !.songs_parquet = read_parquet(output.songs)]
    /\ stdout' = Append(stdout, "Songs Parquet Downloaded from my S3")
    /\ UNCHANGED <<song_data, log_data, output, df, exc, runs, before>>

WriteSongplaysTable ==
    /\ Step("write_songplays")
    /\ output' = [output EXCEPT !.songplays =
           Overwrite(@, WriteParquet(
               songplays_table(views.staging_events, views.songs_parquet),
               PartitionCols("songplays")))]
    /\ stdout' = Append(stdout, "Fact Table is Uploaded")
    /\ UNCHANGED <<song_data, log_data, views, df, exc, runs, before>>

\* ------------------------------------------------------------------- failure
\* The engine raises in the statement main is executing (storage unavailable,
\* malformed input, no schema to infer from an empty table...).  A write that
\* fails may already have deleted the files it was replacing.
Fail ==
    /\ pc \in {ProgramOrder[i] : i \in DOMAIN ProgramOrder}
    /\ exc' = pc
    /\ pc' = AfterFailure(pc)
    /\ \E removed \in SUBSET Writing(pc) :
          output' = [t \in Tables |->
                        IF t \in removed THEN EmptyBag ELSE output[t]]
    /\ UNCHANGED <<song_data, log_data, views, df, stdout, runs, before>>

\* ---------------------------------------------------------------------- main
\* After a run that completed, the script is started again, in a new
\* process, against the same inputs.
Rerun ==
    /\ pc = "done"
    /\ runs < MaxRuns
    /\ pc' = ProgramOrder[1]
    /\ views' = NoViews
    /\ df' = EmptyBag
    /\ stdout' = << >>
    /\ exc' = "none"
    /\ runs' = runs + 1
    /\ before' = output
    /\ UNCHANGED <<song_data, log_data, output>>

Next ==
    \/ CreateSparkSession
    \/ ReadSongData
    \/ WriteSongsTable
    \/ WriteArtistsTable
    \/ ReadLogData
    \/ FilterEvents
    \/ AddTimestamp
    \/ AddDatetime
    \/ WriteUsersTable
    \/ WriteTimeTable
    \/ ReadSongsParquet
    \/ WriteSongplaysTable
    \/ Fail
    \/ Rerun

Spec == Init /\ [][Next]_vars

\* ============================================================ properties
Printed(msg) == \E i \in DOMAIN stdout : stdout[i] = msg

\* the rows of a table as read from the destination
Rows(t) == read_parquet(output[t])

\* the copies of a bag's elements, told apart by a number
Copies(B) == UNION {{<<e, i>> : i \in 1..B[e]} : e \in BagToSet(B)}

SongCols == {"song_id", "title", "artist_id", "year", "duration"}
ArtistCols == {"artist_id", "artist_name", "artist_location",
               "artist_latitude", "artist_longitude"}
UserCols == {"userId", "firstName", "lastName", "gender"}

\* C1: once process_song_data has completed, every songs row is the projection
\* of an input record with a non-null song_id and every artists row that of a
\* record with a non-null artist_id; a record contributes to each table on
\* that table's key alone (null song_id but non-null artist_id: in artists).
C1_NullKeysExcluded ==
    Printed("Artists Table Uploaded") =>
        /\ \A r \in BagToSet(Rows("songs")) :
              /\ r.song_id # NULL
              /\ \E s \in BagToSet(song_data) :
                    s.song_id # NULL /\ Restrict(s, SongCols) = r
        /\ \A r \in BagToSet(Rows("artists")) :
              /\ r.artist_id # NULL
              /\ \E s \in BagToSet(song_data) :
                    s.artist_id # NULL /\ Restrict(s, ArtistCols) = r
        /\ \A s \in BagToSet(song_data) :
              /\ s.artist_id # NULL =>
                    BagIn(Restrict(s, ArtistCols), Rows("artists"))
              /\ s.song_id # NULL =>
                    BagIn(Restrict(s, SongCols), Rows("songs"))

C1_Witness ==
    /\ Printed("Artists Table Uploaded")
    /\ \E s \in BagToSet(song_data) :
          /\ s.song_id = NULL /\ s.artist_id # NULL
          /\ BagIn(Restrict(s, ArtistCols), Rows("artists"))
    /\ \E s \in BagToSet(song_data) :
          /\ s.artist_id = NULL /\ s.song_id # NULL
          /\ BagIn(Restrict(s, SongCols), Rows("songs"))

\* C2: once the users table is written it holds each (userId, firstName,
\* lastName, gender) tuple at most once and no row with a null userId.
C2_UsersDistinct ==
    Printed("User Table Uploaded") =>
        \A r \in BagToSet(Rows("users")) :
            CopiesIn(r, Rows("users")) = 1 /\ r.userId # NULL

C2_Witness ==
    /\ Printed("User Table Uploaded")
    /\ \E r \in BagToSet(Rows("users")) :
          Cardinality({x \in Copies(log_data) :
              x[1].page = "NextSong" /\ Restrict(x[1], UserCols) = r}) >= 2

\* the NextSong events of the input that a songplays row can come from
FromEvent(r, e) ==
    /\ r.start_time = Str(e.ts \div 1000)
    /\ r.userId = e.userId
    /\ r.level = e.level
    /\ r.sessionId = e.sessionId
    /\ r.location = e.location
    /\ r.userAgent = e.userAgent

NextSongCopies == {x \in Copies(log_data) : x[1].page = "NextSong"}

\* C3: every songplays row comes from an input event with page = 'NextSong',
\* and there are no more rows than (NextSong event, songs row) pairs with
\* song = title: an event with another page adds none, even if its song is
\* the title of a songs row.
C3_OnlyNextSong ==
    Printed("Fact Table is Uploaded") =>
        /\ \A r \in BagToSet(Rows("songplays")) :
              \E x \in NextSongCopies : FromEvent(r, x[1])
        /\ BagCardinality(Rows("songplays")) <=
              Cardinality({p \in NextSongCopies \X BagToSet(Rows("songs")) :
                              SqlEq(p[1][1].song, p[2].title)})

C3_Witness ==
    /\ Printed("Fact Table is Uploaded")
    /\ \E e \in BagToSet(log_data) :
          /\ e.page # "NextSong"
          /\ \E b \in BagToSet(Rows("songs")) : e.song = b.title
          /\ \A r \in BagToSet(Rows("songplays")) : ~FromEvent(r, e)

\* what one complete run writes, as a function of the inputs alone
StagedEvents(logs) ==
    BagOfAll(LAMBDA r : WithColumn(WithColumn(r, "timestamp",
                                              get_timestamp(r.ts)),
                                   "datetime", get_datetime(r.ts)),
             FilterNextSong(logs))

PipelineResult(songs, logs) ==
    [t \in Tables |->
        WriteParquet(
            CASE t = "songs" -> songs_table(songs)
              [] t = "artists" -> artists_table(songs)
              [] t = "users" -> users_table(StagedEvents(logs))
              [] t = "time" -> time_table(StagedEvents(logs))
              [] t = "songplays" ->
                   songplays_table(StagedEvents(logs), songs_table(songs)),
            PartitionCols(t))]

\* C4: a run that completes right after a completed run, on the same inputs,
\* leaves all five tables as that run left them; and what a completed run
\* leaves is determined by the inputs, whatever the destination held before.
C4_Idempotent ==
    pc = "done" =>
        /\ runs > 1 => output = before
        /\ output = PipelineResult(song_data, log_data)

C4_Witness ==
    /\ pc = "done" /\ runs = 2
    /\ \A t \in Tables : output[t] # EmptyBag
    /\ output # StaleOutput

\* C5: with exactly one song record (song_id and artist_id non-null) and
\* exactly one NextSong event (userId non-null, song = that song's title), a
\* complete run leaves one songs row with that song_id, one artists row with
\* that artist_id, one users row with that userId, one time row with the
\* event's timestamp and one songplays row with that userId and that song_id.
C5_EndToEnd ==
    \A s \in BagToSet(song_data), e \in BagToSet(log_data) :
        ( /\ pc = "done"
          /\ BagCardinality(song_data) = 1 /\ BagCardinality(log_data) = 1
          /\ s.song_id # NULL /\ s.artist_id # NULL
          /\ e.page = "NextSong" /\ e.userId # NULL /\ SqlEq(e.song, s.title) )
        =>
        /\ \A t \in Tables : BagCardinality(Rows(t)) = 1
        /\ \A r \in BagToSet(Rows("songs")) : r.song_id = s.song_id
        /\ \A r \in BagToSet(Rows("artists")) : r.artist_id = s.artist_id
        /\ \A r \in BagToSet(Rows("users")) : r.userId = e.userId
        /\ \A r \in BagToSet(Rows("time")) :
              r.start_time = Str(e.ts \div 1000)
        /\ \A r \in BagToSet(Rows("songplays")) :
              r.userId = e.userId /\ r.song_id = s.song_id

C5_Witness ==
    /\ pc = "done"
    /\ BagCardinality(song_data) = 1 /\ BagCardinality(log_data) = 1
    /\ \E s \in BagToSet(song_data), e \in BagToSet(log_data) :
          /\ s.song_id # NULL /\ s.artist_id # NULL
          /\ e.page = "NextSong" /\ e.userId # NULL /\ SqlEq(e.song, s.title)
          /\ \E r \in BagToSet(Rows("songplays")) :
                r.userId = e.userId /\ r.song_id = s.song_id

UploadMsg(t) ==
    CASE t = "songs" -> "Song Table Uploaded"
      [] t = "artists" -> "Artists Table Uploaded"
      [] t = "users" -> "User Table Uploaded"
      [] t = "time" -> "Time Table Uploaded"
      [] t = "songplays" -> "Fact Table is Uploaded"

UploadOrder == <<"Song Table Uploaded", "Artists Table Uploaded",
                 "User Table Uploaded", "Time Table Uploaded",
                 "Fact Table is Uploaded">>

IsUpload(m) == \E i \in DOMAIN UploadOrder : UploadOrder[i] = m

Uploads == SelectSeq(stdout, IsUpload)

\* C7: in every run the tables are written one after the other in the order
\* songs, artists, users, time, songplays; the songs table is read back only
\* after this run has written it, so what the join reads is the songs table
\* of this run's input and never what an earlier run left at the destination.
C7_WriteOrder ==
    /\ Len(Uploads) <= Len(UploadOrder)
    /\ Uploads = SubSeq(UploadOrder, 1, Len(Uploads))
    /\ Printed("Songs Parquet Downloaded from my S3") =>
          /\ Printed("Song Table Uploaded")
          /\ \A b \in BagToSet(views.songs_parquet) :
                /\ CopiesIn(b, views.songs_parquet) = 1
                /\ \E s \in BagToSet(song_data) :
                      s.song_id # NULL /\ Restrict(s, SongCols) = b
          /\ \A s \in BagToSet(song_data) :
                s.song_id # NULL =>
                    BagIn(Restrict(s, SongCols), views.songs_parquet)
    /\ Printed("Fact Table is Uploaded") =>
          \A r \in BagToSet(Rows("songplays")) :
              \E s \in BagToSet(song_data) :
                  r.song_id = s.song_id /\ r.artist_id = s.artist_id

C7_Witness ==
    /\ pc = "done"
    /\ before.songs # EmptyBag
    /\ before.songs # output.songs
    /\ Rows("songplays") # EmptyBag
    /\ Uploads = UploadOrder

\* C8: once a statement has failed, nothing more is read, queried, printed
\* or written in that run; the failure leaves every table but the one being
\* written as it was, so a table written earlier in the run keeps what the
\* run wrote and a table whose write had not started holds what it held
\* before the run.
C8_AbortKeepsTables ==
    /\ [][exc # "none" /\ runs' = runs =>
            UNCHANGED <<output, views, df, stdout, pc, exc>>]_vars
    /\ [][exc = "none" /\ exc' # "none" =>
            \A t \in Tables \ Writing(pc) : output'[t] = output[t]]_vars
    /\ [][runs' = runs =>
            \A t \in Tables : Printed(UploadMsg(t)) => output'[t] = output[t]]_vars
    /\ [](\A t \in Tables \ Writing(exc) :
            Printed(UploadMsg(t)) \/ output[t] = before[t])

C8_Witness ==
    /\ exc = "write_time" /\ pc = "aborted"
    /\ Printed("Song Table Uploaded")
    /\ output.songs # before.songs /\ output.songs # EmptyBag
    /\ output.time = EmptyBag /\ before.time # EmptyBag
    /\ output.songplays = before.songplays /\ output.songplays # EmptyBag

\* C9: the songplays table holds, for every NextSong event and every row of
\* the songs table at the destination whose title is the event's song (both
\* non-null), one row carrying that songs row's song_id and artist_id: none
\* for an event without a match, k for an event with k matching songs rows.
MatchPairs ==
    {p \in NextSongCopies \X BagToSet(Rows("songs")) :
        SqlEq(p[1][1].song, p[2].title)}

C9_JoinFanOut ==
    pc = "done" =>
        /\ BagCardinality(Rows("songplays")) = Cardinality(MatchPairs)
        /\ \A r \in BagToSet(Rows("songplays")) :
              CopiesIn(r, Rows("songplays")) =
                  Cardinality({p \in MatchPairs :
                      /\ FromEvent(r, p[1][1])
                      /\ r.song_id = p[2].song_id
                      /\ r.artist_id = p[2].artist_id})
        /\ \A p \in MatchPairs :
              \E r \in BagToSet(Rows("songplays")) :
                  /\ FromEvent(r, p[1][1])
                  /\ r.song_id = p[2].song_id
                  /\ r.artist_id = p[2].artist_id

C9_Witness ==
    /\ pc = "done"
    /\ \E x \in NextSongCopies :
          Cardinality({p \in MatchPairs : p[1] = x}) = 2
    /\ \E x \in NextSongCopies :
          Cardinality({p \in MatchPairs : p[1] = x}) = 0
    /\ BagCardinality(Rows("songplays")) = 2

\* seconds since 1970-01-01 00:00:00 of a datetime
EpochSeconds(dt) ==
    DaysFromCivil(dt.year, dt.month, dt.day) * 86400
        + dt.hour * 3600 + dt.minute * 60 + dt.second

\* C10 as stated: the datetime column is computed from the already divided
\* value, that is from ts/1000/1000.
C10_DoubleDivision ==
    Printed("LOGS Dataframe Schema") =>
        \A r \in BagToSet(views.staging_events) :
            r.datetime = FromTimestamp(DigitsToInt(r.timestamp) \div 1000,
                                       (DigitsToInt(r.timestamp) % 1000) * 1000)

\* C10 as amended: timestamp and datetime are each computed from the original
\* ts, which each divides by 1000 once: datetime is the instant ts/1000
\* seconds after the epoch, in the very second the timestamp column names.
C10_SingleDivision ==
    Printed("LOGS Dataframe Schema") =>
        \A r \in BagToSet(views.staging_events) :
            /\ r.ts - DigitsToInt(r.timestamp) * 1000 \in 0..999
            /\ EpochSeconds(r.datetime) = DigitsToInt(r.timestamp)
            /\ EpochSeconds(r.datetime) * 1000 + r.datetime.microsecond \div 1000
                  = r.ts

C10_Witness ==
    /\ Printed("LOGS Dataframe Schema")
    /\ \E r \in BagToSet(views.staging_events) :
          r.ts = 2018999 /\ r.timestamp = <<2, 0, 1, 8>>
              /\ r.datetime.minute = 33 /\ r.datetime.microsecond = 999000

=============================================================================
